---- MODULE Spec2Model ----
(***************************************************************************)
(* The Financial Gearbox: the FinancialGearbox allocator                   *)
(* (src/financial_gearbox.py) and its two presentation layers, the         *)
(* command-line main() and the Streamlit script (src/app.py).              *)
(*                                                                         *)
(* Money: incomes are whole currency units; the ratios of GEAR_RATIOS are  *)
(* kept as exact fractions in percent (0.10 is 10), so an amount           *)
(* income * ratio is carried in hundredths of a unit (income * percent).   *)
(***************************************************************************)
EXTENDS Integers, Sequences, FiniteSets, TLC

VARIABLES
    GEAR_RATIOS,   \* the class attribute FinancialGearbox.GEAR_RATIOS
    gearbox,       \* the instance: current_stage, income, allocations
    last,          \* the most recent call: operation, arguments, state before, outcome
    prev,          \* history: operation and outcome of the call before that
    selStage,      \* history: argument of the most recent set_life_stage that returned True
    calcStage,     \* history: selStage at the most recent calculate_allocation that returned
    lastReturned,  \* history: value returned by the most recent calculate_allocation that returned
    everComputed,  \* history: some calculate_allocation has returned
    pc,            \* presentation layer: where the running program is
    log            \* presentation layer: what the current run has done so far

vars == <<GEAR_RATIOS, gearbox, last, prev, selStage, calcStage, lastReturned, everComputed, pc, log>>

(*************************** bounds and inputs *****************************)

MaxIncome == 3

MaxNegative == 2

ScenarioIncomes == {20000, 50000, 100000}

Incomes == (0 .. MaxIncome) \cup ScenarioIncomes

NegativeIncomes == {0 - n : n \in 1 .. MaxNegative}

InvalidStages == {"Unemployed", "student"}

(****************************** the allocator ******************************)

None == "None"

Categories == {"Savings", "Expenses", "Investments"}

EmptyDict == [c \in {} |-> 0]

\* mutation: a triple that no longer sums to 1
GearRatiosTableUnnormalised ==
    [s \in {"Student", "First Job", "Family", "Retirement"} |->
        CASE s = "Student"    -> <<10, 80, 10>>
          [] s = "First Job"  -> <<30, 50, 20>>
          [] s = "Family"     -> <<25, 55, 25>>
          [] s = "Retirement" -> <<50, 30, 20>>]

GearRatiosTable ==
    [s \in {"Student", "First Job", "Family", "Retirement"} |->
        CASE s = "Student"    -> <<10, 80, 10>>
          [] s = "First Job"  -> <<30, 50, 20>>
          [] s = "Family"     -> <<25, 55, 20>>
          [] s = "Retirement" -> <<50, 30, 20>>]

StageInputs == DOMAIN GearRatiosTable \cup InvalidStages

NewGearbox == [current_stage |-> None, income |-> 0, allocations |-> EmptyDict]

\* mutation: expenses and investments ratios taken in the wrong order
AllocationsSwapped(inc, ratios) ==
    [c \in Categories |->
        CASE c = "Savings"     -> inc * ratios[1]
          [] c = "Expenses"    -> inc * ratios[3]
          [] c = "Investments" -> inc * ratios[2]]

Allocations(inc, ratios) ==
    [c \in Categories |->
        CASE c = "Savings"     -> inc * ratios[1]
          [] c = "Expenses"    -> inc * ratios[2]
          [] c = "Investments" -> inc * ratios[3]]

\* mutation: an unknown name clears the selection
set_life_stage_ResetOnInvalid(self, stage) ==
    IF stage \in DOMAIN GEAR_RATIOS
    THEN [self |-> [self EXCEPT !.current_stage = stage], ret |-> TRUE]
    ELSE [self |-> [self EXCEPT !.current_stage = None], ret |-> FALSE]

\* mutation: shifting gear discards the stored allocation
set_life_stage_ClearsAllocations(self, stage) ==
    IF stage \in DOMAIN GEAR_RATIOS
    THEN [self |-> [self EXCEPT !.current_stage = stage, !.allocations = EmptyDict],
          ret |-> TRUE]
    ELSE [self |-> self, ret |-> FALSE]

set_life_stage(self, stage) ==
    IF stage \in DOMAIN GEAR_RATIOS
    THEN [self |-> [self EXCEPT !.current_stage = stage], ret |-> TRUE]
    ELSE [self |-> self, ret |-> FALSE]

\* mutation: the income is validated before the stage
calculate_allocation_IncomeFirst(self, inc) ==
    IF inc < 0
    THEN [self |-> self, raised |-> "InvalidInput", ret |-> EmptyDict]
    ELSE IF self.current_stage = None
    THEN [self |-> self, raised |-> "UnsetState", ret |-> EmptyDict]
    ELSE LET a == Allocations(inc, GEAR_RATIOS[self.current_stage])
         IN  [self |-> [self EXCEPT !.income = inc, !.allocations = a],
              raised |-> "none", ret |-> a]

\* mutation: the income is not validated
calculate_allocation_NoIncomeCheck(self, inc) ==
    IF self.current_stage = None
    THEN [self |-> self, raised |-> "UnsetState", ret |-> EmptyDict]
    ELSE LET a == Allocations(inc, GEAR_RATIOS[self.current_stage])
         IN  [self |-> [self EXCEPT !.income = inc, !.allocations = a],
              raised |-> "none", ret |-> a]

\* mutation: the result is returned without being stored
calculate_allocation_NotStored(self, inc) ==
    IF self.current_stage = None
    THEN [self |-> self, raised |-> "UnsetState", ret |-> EmptyDict]
    ELSE IF inc < 0
    THEN [self |-> self, raised |-> "InvalidInput", ret |-> EmptyDict]
    ELSE LET a == Allocations(inc, GEAR_RATIOS[self.current_stage])
         IN  [self |-> [self EXCEPT !.income = inc], raised |-> "none", ret |-> a]

\* mutation: the income is stored before it is validated
calculate_allocation_StoresIncomeFirst(self, inc) ==
    IF self.current_stage = None
    THEN [self |-> self, raised |-> "UnsetState", ret |-> EmptyDict]
    ELSE IF inc < 0
    THEN [self |-> [self EXCEPT !.income = inc], raised |-> "InvalidInput",
          ret |-> EmptyDict]
    ELSE LET a == Allocations(inc, GEAR_RATIOS[self.current_stage])
         IN  [self |-> [self EXCEPT !.income = inc, !.allocations = a],
              raised |-> "none", ret |-> a]

\* mutation: the income the allocation was computed from is not stored
calculate_allocation_IncomeNotStored(self, inc) ==
    IF self.current_stage = None
    THEN [self |-> self, raised |-> "UnsetState", ret |-> EmptyDict]
    ELSE IF inc < 0
    THEN [self |-> self, raised |-> "InvalidInput", ret |-> EmptyDict]
    ELSE LET a == Allocations(inc, GEAR_RATIOS[self.current_stage])
         IN  [self |-> [self EXCEPT !.allocations = a], raised |-> "none", ret |-> a]

calculate_allocation(self, inc) ==
    IF self.current_stage = None
    THEN [self |-> self, raised |-> "UnsetState", ret |-> EmptyDict]
    ELSE IF inc < 0
    THEN [self |-> self, raised |-> "InvalidInput", ret |-> EmptyDict]
    ELSE LET a == Allocations(inc, GEAR_RATIOS[self.current_stage])
         IN  [self |-> [self EXCEPT !.income = inc, !.allocations = a],
              raised |-> "none", ret |-> a]

HasAllocation(self) == self.allocations # EmptyDict

(************************ calls and their history **************************)

NoCall == [op |-> "none", stage |-> None, income |-> 0, before |-> NewGearbox,
           ok |-> TRUE, raised |-> "none", ret |-> EmptyDict]

NoPrev == [op |-> "none", ok |-> TRUE]

Summary(call) == [op |-> call.op, ok |-> call.ok]

\* One instance together with the history of the calls made on it.
NewInstance ==
    [gearbox |-> NewGearbox, last |-> NoCall, prev |-> NoPrev, selStage |-> None,
     calcStage |-> None, lastReturned |-> EmptyDict, everComputed |-> FALSE]

Instance ==
    [gearbox |-> gearbox, last |-> last, prev |-> prev, selStage |-> selStage,
     calcStage |-> calcStage, lastReturned |-> lastReturned, everComputed |-> everComputed]

StartsAs(w) ==
    /\ gearbox = w.gearbox
    /\ last = w.last
    /\ prev = w.prev
    /\ selStage = w.selStage
    /\ calcStage = w.calcStage
    /\ lastReturned = w.lastReturned
    /\ everComputed = w.everComputed

Becomes(w) ==
    /\ gearbox' = w.gearbox
    /\ last' = w.last
    /\ prev' = w.prev
    /\ selStage' = w.selStage
    /\ calcStage' = w.calcStage
    /\ lastReturned' = w.lastReturned
    /\ everComputed' = w.everComputed

CallSetLifeStage(w, stage) ==
    LET r == set_life_stage(w.gearbox, stage) IN
    [w EXCEPT !.gearbox = r.self,
              !.last = [op |-> "set_life_stage", stage |-> stage, income |-> 0,
                        before |-> w.gearbox, ok |-> r.ret, raised |-> "none",
                        ret |-> EmptyDict],
              !.prev = Summary(w.last),
              !.selStage = IF r.ret THEN stage ELSE w.selStage]

CallCalculateAllocation(w, inc) ==
    LET r == calculate_allocation(w.gearbox, inc)
        returned == r.raised = "none" IN
    [w EXCEPT !.gearbox = r.self,
              !.last = [op |-> "calculate_allocation", stage |-> None, income |-> inc,
                        before |-> w.gearbox, ok |-> returned, raised |-> r.raised,
                        ret |-> r.ret],
              !.prev = Summary(w.last),
              !.calcStage = IF returned THEN w.selStage ELSE w.calcStage,
              !.lastReturned = IF returned THEN r.ret ELSE w.lastReturned,
              !.everComputed = (w.everComputed \/ returned)]

(**************** the allocator under arbitrary call sequences *************)

Init ==
    /\ GEAR_RATIOS = GearRatiosTable
    /\ StartsAs(NewInstance)
    /\ pc = "api"
    /\ log = <<>>

SelectStage(stage) ==
    /\ Becomes(CallSetLifeStage(Instance, stage))
    /\ UNCHANGED <<GEAR_RATIOS, pc, log>>

ComputeAllocation(inc) ==
    /\ Becomes(CallCalculateAllocation(Instance, inc))
    /\ UNCHANGED <<GEAR_RATIOS, pc, log>>

Next ==
    \/ \E stage \in StageInputs : SelectStage(stage)
    \/ \E inc \in Incomes \cup NegativeIncomes : ComputeAllocation(inc)

Spec == Init /\ [][Next]_vars

(*************************** presentation layers ***************************)

\* str.strip() and str.lower() on the texts the prompts are given here
Strip(text) ==
    CASE text = " Student " -> "Student"
      [] text = "Both "     -> "Both"
      [] OTHER              -> text

Lower(text) ==
    CASE text = "Both" -> "both"
      [] text = "PIE"  -> "pie"
      [] OTHER         -> text

StageTexts == StageInputs \cup {" Student "}

ChartTexts == {"pie", "bar", "both", "none", "Both ", "PIE", "yes"}

\* what is typed at the income prompt: a numeral, or text float() rejects
IncomeTexts ==
    [kind : {"number"}, value : Incomes \cup NegativeIncomes]
        \cup {[kind |-> "text", value |-> 0]}

Failures == {"select_failed", "income_rejected", "compute_failed"}

Outputs == {"display", "pie_chart", "bar_chart"}

UIInit ==
    /\ GEAR_RATIOS = GearRatiosTable
    /\ StartsAs(NewInstance)
    /\ pc = "idle"
    /\ log = <<>>

CliStart ==
    /\ pc = "idle"
    /\ Becomes(NewInstance)
    /\ pc' = "cli_stage"
    /\ log' = <<>>
    /\ UNCHANGED GEAR_RATIOS

\* mutation: the rejected stage is reported but main() goes on to the income prompt
CliEnterStageNoReturn(text) ==
    /\ pc = "cli_stage"
    /\ LET stage_input == Strip(text)
           w == CallSetLifeStage(Instance, stage_input) IN
       /\ Becomes(w)
       /\ pc' = "cli_income"
       /\ log' = Append(log, IF w.last.ok THEN "select_ok" ELSE "select_failed")
    /\ UNCHANGED GEAR_RATIOS

CliEnterStage(text) ==
    /\ pc = "cli_stage"
    /\ LET stage_input == Strip(text)
           w == CallSetLifeStage(Instance, stage_input) IN
       /\ Becomes(w)
       /\ IF ~w.last.ok
          THEN pc' = "idle" /\ log' = Append(log, "select_failed")
          ELSE pc' = "cli_income" /\ log' = Append(log, "select_ok")
    /\ UNCHANGED GEAR_RATIOS

CliEnterIncome(entry) ==
    /\ pc = "cli_income"
    /\ IF entry.kind = "text" \/ entry.value < 0
       THEN /\ pc' = "idle"
            /\ log' = Append(log, "income_rejected")
            /\ UNCHANGED <<gearbox, last, prev, selStage, calcStage, lastReturned, everComputed>>
       ELSE LET w == CallCalculateAllocation(Instance, entry.value) IN
            /\ Becomes(w)
            /\ IF ~w.last.ok
               THEN pc' = "idle" /\ log' = Append(log, "compute_failed")
               ELSE /\ pc' = "cli_chart"
                    /\ log' = log \o <<"compute_ok">>
                                  \o (IF HasAllocation(w.gearbox) THEN <<"display">> ELSE <<>>)
    /\ UNCHANGED GEAR_RATIOS

CliChartChoice(text) ==
    /\ pc = "cli_chart"
    /\ LET chart_choice == Lower(Strip(text))
           pie == chart_choice \in {"pie", "both"} /\ HasAllocation(gearbox)
           bar == chart_choice \in {"bar", "both"} /\ HasAllocation(gearbox) IN
       log' = log \o (IF pie THEN <<"pie_chart">> ELSE <<>>)
                  \o (IF bar THEN <<"bar_chart">> ELSE <<>>)
    /\ pc' = "idle"
    /\ UNCHANGED <<GEAR_RATIOS, gearbox, last, prev, selStage, calcStage, lastReturned, everComputed>>

\* one execution of the script of app.py on the instance w kept in the session
ScriptRun(w, life_stage, inc, calculate_button) ==
    IF calculate_button \/ inc > 0
    THEN LET w1 == CallSetLifeStage(w, life_stage)
             w2 == CallCalculateAllocation(w1, inc)
             sel == IF w1.last.ok THEN "select_ok" ELSE "select_failed" IN
         IF ~w2.last.ok
         THEN [w |-> w2, log |-> <<sel, "compute_failed">>]
         ELSE [w |-> w2, log |-> <<sel, "compute_ok", "display", "pie_chart", "bar_chart">>]
    ELSE [w |-> w, log |-> <<>>]

WebOpen ==
    /\ pc = "idle"
    /\ LET r == ScriptRun(NewInstance, "Student", 50000, FALSE) IN
       /\ Becomes(r.w)
       /\ log' = r.log
    /\ pc' = "web"
    /\ UNCHANGED GEAR_RATIOS

\* the selectbox offers the keys of GEAR_RATIOS, the number input has min_value 0
WebRerun(life_stage, inc, calculate_button) ==
    /\ pc = "web"
    /\ life_stage \in DOMAIN GEAR_RATIOS
    /\ inc >= 0
    /\ LET r == ScriptRun(Instance, life_stage, inc, calculate_button) IN
       /\ Becomes(r.w)
       /\ log' = r.log
    /\ pc' = "web"
    /\ UNCHANGED GEAR_RATIOS

UINext ==
    \/ CliStart
    \/ \E text \in StageTexts : CliEnterStage(text)
    \/ \E entry \in IncomeTexts : CliEnterIncome(entry)
    \/ \E text \in ChartTexts : CliChartChoice(text)
    \/ WebOpen
    \/ \E life_stage \in StageInputs : \E inc \in Incomes \cup NegativeIncomes :
           \E calculate_button \in BOOLEAN : WebRerun(life_stage, inc, calculate_button)

UISpec == UIInit /\ [][UINext]_vars

(********************************* claims **********************************)

IsSelect == last.op = "set_life_stage"

IsCompute == last.op = "calculate_allocation"

Sum(a) == a["Savings"] + a["Expenses"] + a["Investments"]

\* the ratio triples of the stage table as the specification publishes them, in percent
Percent(stage, c) ==
    CASE stage = "Student"    -> (CASE c = "Savings" -> 10 [] c = "Expenses" -> 80 [] OTHER -> 10)
      [] stage = "First Job"  -> (CASE c = "Savings" -> 30 [] c = "Expenses" -> 50 [] OTHER -> 20)
      [] stage = "Family"     -> (CASE c = "Savings" -> 25 [] c = "Expenses" -> 55 [] OTHER -> 20)
      [] stage = "Retirement" -> (CASE c = "Savings" -> 50 [] c = "Expenses" -> 30 [] OTHER -> 20)

ValidStages == {"Student", "First Job", "Family", "Retirement"}

Expected(inc, stage) == [c \in Categories |-> inc * Percent(stage, c)]

\* C1: selecting any of the four stages returns success, and a computation with
\* income >= 0 made while a stage has been selected returns exactly the three
\* categories with amount[c] = income * ratio[c] of the most recently selected
\* stage (Student, 50000 -> 5000/40000/5000; Retirement, 20000 -> 10000/6000/4000;
\* Family, 0 -> 0/0/0; amounts in hundredths).
C1_SuccessPath ==
    /\ (IsSelect /\ last.stage \in ValidStages) => last.ok
    /\ (IsCompute /\ last.income >= 0 /\ selStage # None) =>
          /\ last.ok
          /\ DOMAIN last.ret = Categories
          /\ \A c \in Categories : last.ret[c] = last.income * Percent(selStage, c)
    /\ (IsCompute /\ last.income = 50000 /\ selStage = "Student") =>
          /\ last.ret["Savings"] = 500000
          /\ last.ret["Expenses"] = 4000000
          /\ last.ret["Investments"] = 500000
    /\ (IsCompute /\ last.income = 20000 /\ selStage = "Retirement") =>
          /\ last.ret["Savings"] = 1000000
          /\ last.ret["Expenses"] = 600000
          /\ last.ret["Investments"] = 400000
    /\ (IsCompute /\ last.income = 0 /\ selStage = "Family") =>
          \A c \in Categories : last.ret[c] = 0

C1_Witness ==
    /\ prev = [op |-> "set_life_stage", ok |-> TRUE]
    /\ IsCompute /\ last.ok
    /\ last.income = 20000
    /\ selStage = "Retirement"
    /\ last.before.allocations # EmptyDict
    /\ last.ret["Savings"] = 1000000

\* C2: every ratio triple of the table is non-negative and sums to 1 (100
\* percent), and every returned allocation sums to the income it was computed from.
C2_SumsToIncome ==
    /\ \A s \in DOMAIN GEAR_RATIOS :
          /\ \A i \in 1 .. 3 : GEAR_RATIOS[s][i] >= 0
          /\ GEAR_RATIOS[s][1] + GEAR_RATIOS[s][2] + GEAR_RATIOS[s][3] = 100
    /\ (IsCompute /\ last.ok) => Sum(last.ret) = 100 * last.income
    /\ HasAllocation(gearbox) => Sum(gearbox.allocations) = 100 * gearbox.income

C2_Witness ==
    /\ IsCompute /\ last.ok
    /\ last.income = MaxIncome
    /\ selStage = "Family"
    /\ Sum(last.ret) = 100 * MaxIncome

\* C3: selecting a name that is not in the table returns False and leaves the
\* instance as it was; the stage in force stays the one most recently selected
\* with success, and a computation right after the rejected selection succeeds
\* with that stage's ratios.
C3_InvalidStageRejected ==
    /\ (IsSelect /\ last.stage \notin ValidStages) => (~last.ok /\ gearbox = last.before)
    /\ selStage # None => gearbox.current_stage = selStage
    /\ (prev = [op |-> "set_life_stage", ok |-> FALSE] /\ IsCompute
            /\ last.income >= 0 /\ selStage # None) =>
          (last.ok /\ last.ret = Expected(last.income, selStage))

C3_Witness ==
    /\ prev = [op |-> "set_life_stage", ok |-> FALSE]
    /\ IsCompute /\ last.ok
    /\ last.income > 0
    /\ last.before.current_stage = "First Job"
    /\ last.ret = Expected(last.income, "First Job")

\* C4: while no selection has succeeded on the instance, every computation
\* fails with UnsetState and no allocation is returned or stored.
C4_UnsetState ==
    /\ (IsCompute /\ selStage = None) =>
          (~last.ok /\ last.raised = "UnsetState" /\ last.ret = EmptyDict)
    /\ selStage = None => (~everComputed /\ ~HasAllocation(gearbox))

C4_Witness ==
    /\ prev = [op |-> "set_life_stage", ok |-> FALSE]
    /\ IsCompute
    /\ selStage = None
    /\ last.raised = "UnsetState"

\* C5 as claimed: a computation with a negative income reports InvalidInput
\* whatever the stage selection is, also when no stage has been selected.
C5_Original ==
    (IsCompute /\ last.income < 0) => (~last.ok /\ last.raised = "InvalidInput")

\* C5 as amended: a computation with a negative income fails; it reports
\* InvalidInput when a stage has been selected (whichever of the four) and
\* UnsetState when none has been selected yet.
C5_NegativeIncome ==
    (IsCompute /\ last.income < 0) =>
        /\ ~last.ok
        /\ last.ret = EmptyDict
        /\ last.raised = (IF selStage = None THEN "UnsetState" ELSE "InvalidInput")

C5_Witness ==
    /\ IsCompute
    /\ last.income = 0 - 1
    /\ selStage = "Retirement"
    /\ last.raised = "InvalidInput"

\* C7: an allocation is stored if and only if some computation has succeeded on
\* the instance, and then it is the value the most recent successful computation
\* returned, an all-zero allocation of income 0 included.
C7_LastAllocation ==
    /\ HasAllocation(gearbox) <=> everComputed
    /\ everComputed => (gearbox.allocations = lastReturned /\ DOMAIN lastReturned = Categories)

C7_Witness ==
    /\ everComputed
    /\ IsSelect
    /\ gearbox.income = 0
    /\ HasAllocation(gearbox)
    /\ \A c \in Categories : gearbox.allocations[c] = 0

\* C8: a successful selection changes the selected stage and nothing else (the
\* income and the stored allocation keep their values), and the ratio table is
\* the same in every state.
C8_SelectFrame ==
    /\ GEAR_RATIOS = GearRatiosTable
    /\ (IsSelect /\ last.ok) =>
          gearbox = [last.before EXCEPT !.current_stage = last.stage]

C8_Witness ==
    /\ IsSelect /\ last.ok
    /\ last.before.allocations # EmptyDict
    /\ last.before.income > 0
    /\ last.before.current_stage # last.stage
    /\ gearbox.allocations = last.before.allocations

\* C9: a computation that fails (no stage selected, or negative income) leaves
\* the instance as it was, so the stored allocation is still the result of the
\* previous successful computation, or empty if there was none.
C9_FailedComputeFrame ==
    (IsCompute /\ ~last.ok) =>
        /\ gearbox = last.before
        /\ gearbox.allocations = lastReturned

C9_Witness ==
    /\ IsCompute /\ ~last.ok
    /\ last.income < 0
    /\ last.raised = "InvalidInput"
    /\ HasAllocation(gearbox)
    /\ gearbox.income > 0

\* C10 as claimed: a stored allocation is always the stored income times the
\* ratios of the stage the instance currently reports.
C10_Original ==
    HasAllocation(gearbox) =>
        /\ gearbox.current_stage \in ValidStages
        /\ gearbox.allocations = Expected(gearbox.income, gearbox.current_stage)

\* C10 as amended: a stored allocation is the stored income times the ratios of
\* the stage that was selected when the most recent successful computation ran;
\* that is the stage currently reported right after the computation and for as
\* long as no other stage has been selected since.
C10_AllocationOfComputedStage ==
    HasAllocation(gearbox) =>
        /\ calcStage \in ValidStages
        /\ gearbox.allocations = Expected(gearbox.income, calcStage)
        /\ (IsCompute /\ last.ok) => gearbox.current_stage = calcStage
        /\ selStage = calcStage => gearbox.current_stage = calcStage

C10_Witness ==
    /\ HasAllocation(gearbox)
    /\ gearbox.income > 0
    /\ calcStage = "Student"
    /\ gearbox.current_stage = "Retirement"
    /\ gearbox.allocations["Expenses"] = gearbox.income * 80

\* C6: in a run of either presentation layer, a computation is attempted only
\* after a successful selection, an allocation is displayed or charted only
\* after a successful computation, and nothing is computed, displayed or
\* charted after a failed selection, a rejected income or a failed computation.
C6_NoOutputAfterFailure ==
    \A j \in 1 .. Len(log) :
        /\ log[j] \in {"compute_ok", "compute_failed"} =>
              /\ \E i \in 1 .. j - 1 : log[i] = "select_ok"
              /\ \A i \in 1 .. j - 1 : log[i] \notin Failures
        /\ log[j] \in Outputs =>
              /\ \E i \in 1 .. j - 1 : log[i] = "compute_ok"
              /\ \A i \in 1 .. j - 1 : log[i] \notin Failures

C6_Witness ==
    /\ pc = "idle"
    /\ log = <<"select_ok", "income_rejected">>
    /\ ~HasAllocation(gearbox)

====
